---- MODULE Spec2Model ----
(***************************************************************************)
(* The "file" scheme loader of crypto/store/loader_file.c: one loader      *)
(* context over one stream, the six content handlers, the dispatch of a    *)
(* blob over the handlers, and the public operations open, load, eof,      *)
(* error and close.                                                        *)
(*                                                                         *)
(* Spec starts from the loader file_open returns for a bare path.          *)
(* SpecOpen starts before file_open, on a locator.  SpecOrder walks the    *)
(* handlers in every order, and SpecEmbedded adds a handler that unwraps,  *)
(* for the part of the dispatch that no handler of file_handlers reaches.  *)
(*                                                                         *)
(* The stream is a sequence of records.  The codecs (d2i_*, PKCS12_*,      *)
(* PEM_read_bio, PEM_do_header, asn1_d2i_read_bio, BIO_eof, UI_process)    *)
(* live outside this file; a record states what each of them answers on    *)
(* its bytes, and what the user interface answers when prompted for it.    *)
(***************************************************************************)
EXTENDS Integers, Sequences, FiniteSets, TLC

\* ------------------------------------------------------------------ bounds

MaxRecords == 2   \* longest stream
MaxCerts   == 2   \* most certificates in one PKCS#12 bundle
MaxLoads   == 4   \* most file_load calls on one loader
MaxPath    == 2   \* longest path part of a locator, in characters
MaxDepth   == 2   \* most wrappers around one blob

\* --------------------------------------------------------------- constants

NULL      == "NULL"                 \* a null handler pointer
NULL_NAME == <<>>                   \* pem_name == NULL
NULL_INFO == [type |-> "NULL", by |-> "NULL", rec |-> 0, n |-> 0]   \* a null OSSL_STORE_INFO *
NULL_CTX  == [rec |-> 0, q |-> <<>>]                                \* a null handler_ctx
NULL_BLOB == [framing |-> FALSE, name |-> <<>>, enc |-> "none", dec |-> {},
              ncerts |-> 0, mac |-> "empty", ui |-> "good",
              wrap |-> <<>>, echo |-> FALSE]                        \* no data, length 0

\* the error reasons this file raises, and those of the codecs it calls
R_UI_LIB           == "ERR_R_UI_LIB"
R_CANCELLED        == "OSSL_STORE_R_UI_PROCESS_INTERRUPTED_OR_CANCELLED"
R_PASS_CALLBACK    == "OSSL_STORE_R_PASSPHRASE_CALLBACK_ERROR"
R_PKCS12_MAC       == "OSSL_STORE_R_ERROR_VERIFYING_PKCS12_MAC"
R_IS_NOT_A         == "OSSL_STORE_R_IS_NOT_A"
R_AMBIGUOUS        == "OSSL_STORE_R_AMBIGUOUS_CONTENT_TYPE"
R_UNSUPPORTED      == "OSSL_STORE_R_UNSUPPORTED_CONTENT_TYPE"
R_URI_AUTHORITY    == "OSSL_STORE_R_URI_AUTHORITY_UNSUPPORED"
R_PATH_ABSOLUTE    == "OSSL_STORE_R_PATH_MUST_BE_ABSOLUTE"
R_PEM_NO_START     == "PEM_R_NO_START_LINE"
R_PEM_BAD_END      == "PEM_R_BAD_END_LINE"
R_PEM_CIPHER       == "PEM_R_UNSUPPORTED_ENCRYPTION"
R_PEM_BAD_PASSWORD == "PEM_R_BAD_PASSWORD_READ"
R_PEM_BAD_DECRYPT  == "PEM_R_BAD_DECRYPT"
R_ASN1_READ        == "ASN1_R_NOT_ENOUGH_DATA"

\* PEM names, as the words of the name
PEM_STRING_X509_OLD     == <<"X509", "CERTIFICATE">>
PEM_STRING_X509         == <<"CERTIFICATE">>
PEM_STRING_X509_TRUSTED == <<"TRUSTED", "CERTIFICATE">>
PEM_STRING_X509_CRL     == <<"X509", "CRL">>
PEM_STRING_PUBLIC       == <<"PUBLIC", "KEY">>
PEM_RSA_PRIVATE         == <<"RSA", "PRIVATE", "KEY">>
PEM_PKCS8INF            == <<"PRIVATE", "KEY">>
PEM_DSA_PARAMS          == <<"DSA", "PARAMETERS">>

PemNames ==
  { PEM_STRING_X509_OLD, PEM_STRING_X509, PEM_STRING_X509_TRUSTED,
    PEM_STRING_X509_CRL, PEM_STRING_PUBLIC, PEM_RSA_PRIVATE, PEM_PKCS8INF,
    PEM_DSA_PARAMS }

\* the key algorithms EVP_PKEY_asn1_find_str knows by name
KeyAlgorithms == { <<"RSA">>, <<"DSA">>, <<"EC">>, <<"DH">> }

\* the binary codecs a blob can parse under
Codecs == {"PKCS12", "X509_AUX", "X509", "X509_CRL", "PARAMS", "PUBKEY", "PrivateKey"}

\* ------------------------------------------------------------- the handlers

PKCS12_handler ==
  [name |-> "PKCS12", eof |-> TRUE, destroy_ctx |-> TRUE, repeatable |-> TRUE]
PrivateKey_handler ==
  [name |-> "PrivateKey", eof |-> FALSE, destroy_ctx |-> FALSE, repeatable |-> FALSE]
PUBKEY_handler ==
  [name |-> "PUBKEY", eof |-> FALSE, destroy_ctx |-> FALSE, repeatable |-> FALSE]
params_handler ==
  [name |-> "params", eof |-> FALSE, destroy_ctx |-> FALSE, repeatable |-> FALSE]
X509Certificate_handler ==
  [name |-> "X509Certificate", eof |-> FALSE, destroy_ctx |-> FALSE, repeatable |-> FALSE]
X509CRL_handler ==
  [name |-> "X509CRL", eof |-> FALSE, destroy_ctx |-> FALSE, repeatable |-> FALSE]

\* a non-repeatable handler that unwraps, not part of file_handlers
Wrapper_handler ==
  [name |-> "Wrapper", eof |-> FALSE, destroy_ctx |-> FALSE, repeatable |-> FALSE]

file_handlers ==
  << PKCS12_handler, X509Certificate_handler, X509CRL_handler,
     params_handler, PUBKEY_handler, PrivateKey_handler >>

\* ------------------------------------------------------------- the records

\* What the user interface does when it is asked for the pass phrase of a
\* record: UI_process returns -2, -1, or 0 with the right or a wrong secret.
UIAnswers == {"cancelled", "failed", "good", "wrong"}

\* A record of the stream.
\*   framing  the record can be read off the stream (PEM_read_bio /
\*            asn1_d2i_read_bio succeeds)
\*   name     the PEM name, NULL_NAME in a raw stream
\*   enc      "none", "enc" (Proc-Type/DEK-Info header), "badinfo" (a long
\*            header PEM_get_EVP_CIPHER_INFO rejects)
\*   dec      the codecs that parse the (decrypted) bytes
\*   ncerts   the certificates PKCS12_parse finds (end-entity cert and chain)
\*   mac      the pass phrase the PKCS#12 MAC verifies under
\*   ui       what the user answers when prompted for this record
\*   wrap     the blob an unwrapping handler finds inside these bytes, if any
\*   echo     an unwrapping handler finds these very bytes, under the same
\*            name, inside them
Rec(framing, name, enc, dec, ncerts, mac, ui) ==
  [framing |-> framing, name |-> name, enc |-> enc, dec |-> dec,
   ncerts |-> ncerts, mac |-> mac, ui |-> ui, wrap |-> <<>>, echo |-> FALSE]

\* the bytes of inner inside a wrapper, under the name name
Wrapped(name, inner) ==
  [Rec(TRUE, name, "none", {}, 1, "empty", "good") EXCEPT !.wrap = <<inner>>]

\* the wrappers around a blob
RECURSIVE Depth(_)
Depth(blob) == IF blob.wrap = <<>> THEN 0 ELSE 1 + Depth(blob.wrap[1])

RawRecords ==
       { Rec(TRUE, NULL_NAME, "none", d, 1, "empty", "good") :
            d \in { {}, {"X509", "PrivateKey"}, {"X509", "X509_CRL", "PrivateKey"} } }
  \cup { Rec(TRUE, NULL_NAME, "none", {d}, 1, "empty", "good") : d \in Codecs \ {"PKCS12"} }
  \cup { Rec(TRUE, NULL_NAME, "none", {"PKCS12"}, n, "pass", "good") :
            n \in 1..MaxCerts }
  \cup { Rec(TRUE, NULL_NAME, "none", {"PKCS12"}, 1, m, "good") :
            m \in {"empty", "null"} }
  \cup { Rec(TRUE, NULL_NAME, "none", {"PKCS12"}, 1, "pass", u) :
            u \in {"cancelled", "failed", "wrong"} }
  \cup { Rec(TRUE, NULL_NAME, "none", {"PKCS12"} \cup d, 1, "empty", "good") :
            d \in {{"X509"}, {"X509", "PrivateKey"}} }
  \cup { Rec(TRUE, NULL_NAME, "none", {"PKCS12", "X509"}, 1, "pass", "cancelled") }
  \cup { Rec(FALSE, NULL_NAME, "none", {}, 1, "empty", "good") }

PemRecords ==
       { Rec(TRUE, n, "none", Codecs, 1, "empty", "good") : n \in PemNames }
  \cup { Rec(TRUE, n, "none", {}, 1, "empty", "good") :
            n \in {PEM_STRING_X509, PEM_RSA_PRIVATE} }
  \cup { Rec(TRUE, n, "none", {"X509"}, 1, "empty", "good") :
            n \in {PEM_STRING_X509, PEM_STRING_X509_TRUSTED} }
  \cup { Rec(TRUE, PEM_RSA_PRIVATE, "enc", Codecs, 1, "empty", u) : u \in UIAnswers }
  \cup { Rec(TRUE, PEM_RSA_PRIVATE, "badinfo", Codecs, 1, "empty", "good") }
  \cup { Rec(FALSE, PEM_STRING_X509, "none", {}, 1, "empty", "good") }

RECURSIVE SeqsUpTo(_, _)
SeqsUpTo(S, n) ==
  IF n = 0 THEN { <<>> }
  ELSE LET shorter == SeqsUpTo(S, n - 1)
       IN  shorter \cup { Append(s, r) : s \in { t \in shorter : Len(t) = n - 1 }, r \in S }

Streams == SeqsUpTo(RawRecords, MaxRecords) \cup SeqsUpTo(PemRecords, MaxRecords)

\* ---------------------------------------------------------- decoded objects

\* An OSSL_STORE_INFO: its type, the handler that made it, the record it was
\* decoded from and its place among the objects of that record.
Info(type, by, rec, n) == [type |-> type, by |-> by, rec |-> rec, n |-> n]

OSSL_STORE_INFO_new_PKEY(by, rec, n)   == Info("PKEY", by, rec, n)
OSSL_STORE_INFO_new_CERT(by, rec, n)   == Info("CERT", by, rec, n)
OSSL_STORE_INFO_new_CRL(by, rec, n)    == Info("CRL", by, rec, n)
OSSL_STORE_INFO_new_PARAMS(by, rec, n) == Info("PARAMS", by, rec, n)

OSSL_STORE_INFO_new_EMBEDDED(by, rec, n) == Info("EMBEDDED", by, rec, n)

\* What one try_decode call hands back: the object (or NULL_INFO), the handler
\* context it left in *pctx, the objects it created, the error reasons it
\* raised, and the answers the pass phrase prompt got; steps are the calls
\* it made on a PKCS#12 container, in order, and inner the name and bytes an
\* embedded object holds.
Decoded(info, ctx, made, errs, gw) ==
  [info |-> info, ctx |-> ctx, made |-> made, errs |-> errs, gw |-> gw,
   steps |-> <<>>, inner |-> NULL_BLOB]

NoMatch(ctx, errs, gw) == Decoded(NULL_INFO, ctx, {}, errs, gw)

\* ------------------------------------------------------- password prompting

\* UI_process: -2 interrupted or cancelled, -1 error, otherwise success
UI_process(ui) == IF ui = "cancelled" THEN -2 ELSE IF ui = "failed" THEN -1 ELSE 0

\* file_get_pass with the case -2 falling into the case -1
file_get_pass_fallthrough(ui) ==
  IF UI_process(ui) < 0 THEN [pass |-> NULL, errs |-> {R_UI_LIB}, prompts |-> 1]
  ELSE [pass |-> ui, errs |-> {}, prompts |-> 1]

\* file_get_pass: one UI_process call; the pass phrase read, or NULL with the
\* reason raised.  prompts counts the UI_process calls made.
file_get_pass(ui) ==
  LET r == UI_process(ui)
  IN  IF r = -2 THEN [pass |-> NULL, errs |-> {R_CANCELLED}, prompts |-> 1]
      ELSE IF r = -1 THEN [pass |-> NULL, errs |-> {R_UI_LIB}, prompts |-> 1]
      ELSE [pass |-> ui, errs |-> {}, prompts |-> 1]

\* file_get_pem_pass: the length of the pass phrase, 0 when there is none
file_get_pem_pass(ui) ==
  LET g == file_get_pass(ui)
  IN  [len |-> IF g.pass = NULL THEN 0 ELSE 1, errs |-> g.errs, prompts |-> g.prompts]

\* ------------------------------------------------------------- try_decode

\* pem_check_suffix: the number of words before the suffix, 0 when the name
\* does not end in the suffix or has nothing before it
pem_check_suffix(pem_name, suffix) ==
  LET n == Len(pem_name)
      k == Len(suffix)
  IN  IF k + 1 > n THEN 0
      ELSE IF SubSeq(pem_name, n - k + 1, n) # suffix THEN 0
      ELSE n - k

\* the stack with the certificate pushed before the key
PKCS12_objects_cert_first(blob, rec) ==
  <<OSSL_STORE_INFO_new_CERT("PKCS12", rec, 2),
    OSSL_STORE_INFO_new_PKEY("PKCS12", rec, 1)>> \o
  [i \in 1..(blob.ncerts - 1) |-> OSSL_STORE_INFO_new_CERT("PKCS12", rec, i + 2)]

\* the stack try_decode_PKCS12 builds from what PKCS12_parse finds: the key,
\* the certificate, then the chain
PKCS12_objects(blob, rec) ==
  <<OSSL_STORE_INFO_new_PKEY("PKCS12", rec, 1)>> \o
  [i \in 1..blob.ncerts |-> OSSL_STORE_INFO_new_CERT("PKCS12", rec, i + 1)]

sk_shift(q) == IF q = <<>> THEN NULL_INFO ELSE Head(q)

sk_rest(q)  == IF q = <<>> THEN <<>> ELSE Tail(q)

\* PKCS12_verify_mac under the empty pass phrase, the null pass phrase, or
\* the pass phrase the user gave
PKCS12_verify_mac(blob, pass) ==
  CASE pass = "empty" -> blob.mac = "empty"
    [] pass = "null"  -> blob.mac = "null"
    [] OTHER          -> blob.mac = "pass" /\ pass = "good"

\* PKCS12_parse and the stack of objects, after the calls in steps
PKCS12_parsed(blob, rec, steps, gw) ==
  [Decoded(sk_shift(PKCS12_objects(blob, rec)),
           [rec |-> rec, q |-> sk_rest(PKCS12_objects(blob, rec))],
           { PKCS12_objects(blob, rec)[i] : i \in DOMAIN PKCS12_objects(blob, rec) },
           {}, gw)
   EXCEPT !.steps = Append(steps, "PKCS12_parse")]

\* the else branch: neither the empty nor the null pass phrase verified the
\* MAC, and file_get_pass has answered g
PKCS12_with_pass(blob, rec, pctx, g) ==
  IF g.pass = NULL
  THEN [NoMatch(pctx, g.errs \cup {R_PASS_CALLBACK}, <<blob.ui>>)
        EXCEPT !.steps = <<"verify_mac empty", "verify_mac null", "file_get_pass">>]
  ELSE IF ~PKCS12_verify_mac(blob, g.pass)
  THEN [NoMatch(pctx, {R_PKCS12_MAC}, <<blob.ui>>)
        EXCEPT !.steps = <<"verify_mac empty", "verify_mac null", "file_get_pass",
                           "verify_mac pass">>]
  ELSE PKCS12_parsed(blob, rec,
                     <<"verify_mac empty", "verify_mac null", "file_get_pass",
                       "verify_mac pass">>,
                     <<blob.ui>>)

\* try_decode_PKCS12 with && for || between the first two MAC checks
try_decode_PKCS12_both(pem_name, blob, rec, pctx) ==
  IF pctx = NULL_CTX THEN
     IF pem_name # NULL_NAME THEN NoMatch(pctx, {}, <<>>)
     ELSE IF "PKCS12" \notin blob.dec THEN NoMatch(pctx, {}, <<>>)
     ELSE IF PKCS12_verify_mac(blob, "empty") /\ PKCS12_verify_mac(blob, "null")
          THEN PKCS12_parsed(blob, rec, <<"verify_mac empty", "verify_mac null">>, <<>>)
     ELSE PKCS12_with_pass(blob, rec, pctx, file_get_pass(blob.ui))
  ELSE
     Decoded(sk_shift(pctx.q), [pctx EXCEPT !.q = sk_rest(pctx.q)], {}, {}, <<>>)

try_decode_PKCS12(pem_name, blob, rec, pctx) ==
  IF pctx = NULL_CTX THEN
     \* initial parsing
     IF pem_name # NULL_NAME THEN NoMatch(pctx, {}, <<>>)
     ELSE IF "PKCS12" \notin blob.dec THEN NoMatch(pctx, {}, <<>>)
     ELSE IF PKCS12_verify_mac(blob, "empty")
          THEN PKCS12_parsed(blob, rec, <<"verify_mac empty">>, <<>>)
     ELSE IF PKCS12_verify_mac(blob, "null")
          THEN PKCS12_parsed(blob, rec, <<"verify_mac empty", "verify_mac null">>, <<>>)
     ELSE PKCS12_with_pass(blob, rec, pctx, file_get_pass(blob.ui))
  ELSE
     \* a later call on the stack of objects left by the first
     Decoded(sk_shift(pctx.q), [pctx EXCEPT !.q = sk_rest(pctx.q)], {}, {}, <<>>)

\* eof_PKCS12 without the test for an empty stack
eof_PKCS12_null_only(ctx) == ctx = NULL_CTX

eof_PKCS12(ctx) == ctx = NULL_CTX \/ Len(ctx.q) = 0

try_decode_PrivateKey(pem_name, blob, rec, pctx) ==
  LET made == OSSL_STORE_INFO_new_PKEY("PrivateKey", rec, 1)
      slen == pem_check_suffix(pem_name, <<"PRIVATE", "KEY">>)
      pkey == IF pem_name # NULL_NAME
              THEN /\ slen > 0
                   /\ SubSeq(pem_name, 1, slen) \in KeyAlgorithms
                   /\ "PrivateKey" \in blob.dec
              ELSE "PrivateKey" \in blob.dec
  IN  IF pkey THEN Decoded(made, pctx, {made}, {}, <<>>) ELSE NoMatch(pctx, {}, <<>>)

try_decode_PUBKEY(pem_name, blob, rec, pctx) ==
  LET made == OSSL_STORE_INFO_new_PKEY("PUBKEY", rec, 1)
  IN  IF pem_name # NULL_NAME /\ pem_name # PEM_STRING_PUBLIC THEN NoMatch(pctx, {}, <<>>)
      ELSE IF "PUBKEY" \in blob.dec THEN Decoded(made, pctx, {made}, {}, <<>>)
      ELSE NoMatch(pctx, {}, <<>>)

try_decode_params(pem_name, blob, rec, pctx) ==
  LET made == OSSL_STORE_INFO_new_PARAMS("params", rec, 1)
      slen == pem_check_suffix(pem_name, <<"PARAMETERS">>)
      ok   == IF pem_name # NULL_NAME
              THEN /\ slen > 0
                   /\ SubSeq(pem_name, 1, slen) \in KeyAlgorithms
                   /\ "PARAMS" \in blob.dec
              ELSE "PARAMS" \in blob.dec
  IN  IF ok THEN Decoded(made, pctx, {made}, {}, <<>>) ELSE NoMatch(pctx, {}, <<>>)

try_decode_X509Certificate(pem_name, blob, rec, pctx) ==
  LET made == OSSL_STORE_INFO_new_CERT("X509Certificate", rec, 1)
      ignore_trusted == ~(pem_name # NULL_NAME /\ pem_name = PEM_STRING_X509_TRUSTED)
      named == \/ pem_name = NULL_NAME
               \/ pem_name = PEM_STRING_X509_TRUSTED
               \/ pem_name = PEM_STRING_X509_OLD
               \/ pem_name = PEM_STRING_X509
  IN  IF ~named THEN NoMatch(pctx, {}, <<>>)
      ELSE IF "X509_AUX" \in blob.dec \/ (ignore_trusted /\ "X509" \in blob.dec)
           THEN Decoded(made, pctx, {made}, {}, <<>>)
      ELSE NoMatch(pctx, {}, <<>>)

try_decode_X509CRL(pem_name, blob, rec, pctx) ==
  LET made == OSSL_STORE_INFO_new_CRL("X509CRL", rec, 1)
  IN  IF pem_name # NULL_NAME /\ pem_name # PEM_STRING_X509_CRL THEN NoMatch(pctx, {}, <<>>)
      ELSE IF "X509_CRL" \in blob.dec THEN Decoded(made, pctx, {made}, {}, <<>>)
      ELSE NoMatch(pctx, {}, <<>>)

\* A handler outside file_handlers, of the kind the unwrapping at the end of
\* file_load_try_decode is written for: it accepts a blob with a wrapper
\* around it and returns an embedded object holding the name and the bytes
\* inside the wrapper.
try_decode_Wrapper(pem_name, blob, rec, pctx) ==
  IF ~blob.echo /\ blob.wrap = <<>> THEN NoMatch(pctx, {}, <<>>)
  ELSE [Decoded(OSSL_STORE_INFO_new_EMBEDDED("Wrapper", rec, Depth(blob)), pctx,
                {OSSL_STORE_INFO_new_EMBEDDED("Wrapper", rec, Depth(blob))}, {}, <<>>)
        EXCEPT !.inner = IF blob.echo THEN blob ELSE blob.wrap[1]]

\* handler->try_decode(...)
try_decode(handler, pem_name, blob, rec, pctx) ==
  CASE handler.name = "PKCS12"          -> try_decode_PKCS12(pem_name, blob, rec, pctx)
    [] handler.name = "X509Certificate" -> try_decode_X509Certificate(pem_name, blob, rec, pctx)
    [] handler.name = "X509CRL"         -> try_decode_X509CRL(pem_name, blob, rec, pctx)
    [] handler.name = "params"          -> try_decode_params(pem_name, blob, rec, pctx)
    [] handler.name = "PUBKEY"          -> try_decode_PUBKEY(pem_name, blob, rec, pctx)
    [] handler.name = "PrivateKey"      -> try_decode_PrivateKey(pem_name, blob, rec, pctx)
    [] handler.name = "Wrapper"         -> try_decode_Wrapper(pem_name, blob, rec, pctx)

\* ------------------------------------------------------- the loader context

\* A context c carries the fields of struct ossl_store_loader_ctx_st (the
\* stream as the records and the number already read), the thread's error
\* queue, and a ledger of what was allocated and released:
\*   made       every OSSL_STORE_INFO created
\*   freed      every OSSL_STORE_INFO_free of a non-null object, in order
\*   ctxMade    the records a handler context was created for
\*   destroyed  every destroy_ctx call on a non-null context, with the
\*              handler whose operation was called
\*   asked      the records the user was prompted for, in order
\* and, for the call in progress: ret (the value returned), matchcount,
\* reads (records taken off the stream), pushed (error reasons raised),
\* gw (answers the prompts of this call got), drec (the record dispatched
\* last), crashed (the call faulted), probes (try_decode calls made), steps
\* (what the PKCS12 handler did with the container dispatched last), passes (passes over the
\* handlers), inner (what the embedded result holds), hung (the call cannot
\* return), handlers (the table the dispatch walks).

Raise(c, errs) ==
  [c EXCEPT !.errq = @ \cup errs, !.pushed = @ \cup errs]

ERR_clear_error(c) == [c EXCEPT !.errq = {}]

OSSL_STORE_INFO_free(c, info) ==
  IF info = NULL_INFO THEN c ELSE [c EXCEPT !.freed = Append(@, info)]

RECURSIVE FreeAll(_, _)
FreeAll(c, q) ==
  IF q = <<>> THEN c ELSE FreeAll(OSSL_STORE_INFO_free(c, Head(q)), Tail(q))

\* destroy_ctx_PKCS12: sk_OSSL_STORE_INFO_pop_free of the stack; the caller's
\* pointer becomes NULL
destroy_ctx_PKCS12(c, ctx) ==
  IF ctx = NULL_CTX THEN c
  ELSE [FreeAll(c, ctx.q) EXCEPT
          !.destroyed = Append(@, [ctx |-> ctx.rec, via |-> "PKCS12"])]

BIO_eof(c) == c.pos >= Len(c.stream)

\* file_error as a read-and-clear of the counter
file_error_clearing(c) == [c EXCEPT !.ret = (c.errcnt > 0), !.errcnt = 0]

file_error(c) == [c EXCEPT !.ret = (c.errcnt > 0)]

\* file_eof that tears the handler context down once the handler is at its end
file_eof_teardown(c) ==
  IF c.last_handler # NULL /\ ~eof_PKCS12(c.last_handler_ctx)
  THEN [c EXCEPT !.ret = FALSE]
  ELSE [destroy_ctx_PKCS12(c, c.last_handler_ctx) EXCEPT
          !.ret = BIO_eof(c), !.last_handler = NULL, !.last_handler_ctx = NULL_CTX]

file_eof(c) ==
  [c EXCEPT !.ret = IF c.last_handler # NULL /\ ~eof_PKCS12(c.last_handler_ctx)
                    THEN FALSE
                    ELSE BIO_eof(c)]

\* ----------------------------------------------------------------- dispatch

\* Each operator below takes the context in its first argument and yields the
\* context the modelled statements leave.

\* file_load_try_decode, the else branch of the loop body: handler matched
\* with the decode d.  a carries the locals result, handler_ctx and matching
\* (matching_handlers, as handler records).  Calling handler->destroy_ctx
\* where the handler defines none is a call through a null function pointer:
\* the call faults and nothing after it runs.
ambiguous(a, handler, d) ==
  \* more than one match => ambiguous, kill any result
  [(IF handler.destroy_ctx
    THEN destroy_ctx_PKCS12(OSSL_STORE_INFO_free(OSSL_STORE_INFO_free(a, a.result), d.info),
                            a.handler_ctx)
    ELSE OSSL_STORE_INFO_free(OSSL_STORE_INFO_free(a, a.result), d.info))
   EXCEPT !.handler_ctx = NULL_CTX, !.result = NULL_INFO]

counted(a, handler, d) ==
  IF a.matchcount = 1 THEN [a EXCEPT !.result = d.info, !.inner = d.inner]
  ELSE ambiguous(a, handler, d)

matched(a, handler, d) ==
  IF a.handler_ctx # NULL_CTX /\ ~handler.destroy_ctx
  THEN [a EXCEPT !.matching = Append(@, handler), !.crashed = TRUE,
                 !.tmp_result = d.info, !.tmp_handler_ctx = d.ctx]
  ELSE counted([destroy_ctx_PKCS12(a, a.handler_ctx) EXCEPT
                  !.matching = Append(@, handler),
                  !.handler_ctx = d.ctx,
                  !.matchcount = @ + 1],
               handler, d)

\* the loop body once try_decode has answered d for the record rec
tried(a, handler, d, rec) ==
  IF d.info = NULL_INFO
  THEN [a EXCEPT !.errq = @ \cup d.errs \cup {R_IS_NOT_A},
                 !.pushed = @ \cup d.errs \cup {R_IS_NOT_A},
                 !.probes = @ + 1,
                 !.steps = @ \o d.steps,
                 !.gw = @ \o d.gw,
                 !.asked = @ \o [i \in DOMAIN d.gw |-> rec]]
  ELSE matched([a EXCEPT !.errq = @ \cup d.errs,
                         !.pushed = @ \cup d.errs,
                         !.probes = @ + 1,
                         !.steps = @ \o d.steps,
                         !.made = @ \cup d.made,
                         !.ctxMade = @ \cup (IF d.ctx = NULL_CTX THEN {} ELSE {d.ctx.rec}),
                         !.gw = @ \o d.gw,
                         !.asked = @ \o [i \in DOMAIN d.gw |-> rec]],
               handler, d)

\* the loop over the handlers, from handler i on
RECURSIVE HandlerLoop(_, _, _, _, _, _)
HandlerLoop(a, handlers, i, pem_name, blob, rec) ==
  IF i > Len(handlers) \/ a.crashed THEN a
  ELSE HandlerLoop(tried(a, handlers[i],
                         try_decode(handlers[i], pem_name, blob, rec, NULL_CTX), rec),
                   handlers, i + 1, pem_name, blob, rec)

\* after the loop: the reasons raised, and the repeatable handler kept
after_loop(a) ==
  IF a.crashed THEN a
  ELSE IF a.matchcount = 0 THEN Raise(a, {R_UNSUPPORTED})
  ELSE [a EXCEPT
          !.errq = IF a.matchcount > 1 THEN @ \cup {R_AMBIGUOUS} ELSE @,
          !.pushed = IF a.matchcount > 1 THEN @ \cup {R_AMBIGUOUS} ELSE @,
          !.last_handler = IF a.matching[1].repeatable THEN a.matching[1].name ELSE @,
          !.last_handler_ctx = IF a.matching[1].repeatable THEN a.handler_ctx ELSE @]

\* the end of file_load_try_decode: a result clears the error queue
decoded(a) ==
  IF ~a.crashed /\ a.result # NULL_INFO THEN ERR_clear_error(a) ELSE a

\* one pass over the handlers, from the label again to the label err
handler_pass(c, handlers, pem_name, blob, rec) ==
  after_loop(HandlerLoop(
    [c EXCEPT !.matchcount = 0, !.result = NULL_INFO, !.passes = @ + 1,
              !.steps = <<>>,
              !.handler_ctx = NULL_CTX, !.matching = <<>>, !.drec = rec],
    handlers, 1, pem_name, blob, rec))

\* the embedded result returned as it is
embedded_returned(a, handlers, pem_name, blob, rec) == decoded(a)

\* after the label err: an embedded result is taken apart and its name and
\* bytes go through the handlers again; anything else is the result.  The
\* handlers answer by the name and the bytes alone, so a pass over the name
\* and bytes of the pass before repeats it and the jump to again is taken
\* without end.
RECURSIVE embedded(_, _, _, _, _)
embedded(a, handlers, pem_name, blob, rec) ==
  IF ~a.crashed /\ a.result.type = "EMBEDDED"
  THEN IF a.inner = blob
       THEN [a EXCEPT !.hung = TRUE, !.freed = Append(@, a.result),
                      !.result = NULL_INFO]
       ELSE embedded(handler_pass([a EXCEPT !.freed = Append(@, a.result),
                                            !.result = NULL_INFO],
                                  handlers, a.inner.name, a.inner, rec),
                     handlers, a.inner.name, a.inner, rec)
  ELSE decoded(a)

\* file_load_try_decode: the context after dispatching one blob, with
\* c.result the object returned and c.matchcount the matches counted.
file_load_try_decode(c, handlers, pem_name, blob, rec) ==
  embedded(handler_pass(c, handlers, pem_name, blob, rec),
           handlers, pem_name, blob, rec)

\* the sticky slot cleared without destroy_ctx
repeated_forgetful(c, d) ==
  IF d.info = NULL_INFO
  THEN [c EXCEPT !.probes = @ + 1,
                 !.result = NULL_INFO, !.last_handler_ctx = NULL_CTX, !.last_handler = NULL]
  ELSE [c EXCEPT !.probes = @ + 1, !.result = d.info, !.last_handler_ctx = d.ctx]

\* the sticky state torn down with the last object it yields
repeated_eager(c, d) ==
  IF d.info = NULL_INFO \/ eof_PKCS12(d.ctx)
  THEN [destroy_ctx_PKCS12(c, d.ctx) EXCEPT
          !.probes = @ + 1,
          !.result = d.info, !.last_handler_ctx = NULL_CTX, !.last_handler = NULL]
  ELSE [c EXCEPT !.probes = @ + 1, !.result = d.info, !.last_handler_ctx = d.ctx]

\* file_load_try_repeat, once the handler has answered d
repeated(c, d) ==
  IF d.info = NULL_INFO
  THEN [destroy_ctx_PKCS12(c, d.ctx) EXCEPT
          !.probes = @ + 1,
          !.result = NULL_INFO, !.last_handler_ctx = NULL_CTX, !.last_handler = NULL]
  ELSE [c EXCEPT !.probes = @ + 1, !.result = d.info, !.last_handler_ctx = d.ctx]

\* file_load_try_repeat
file_load_try_repeat(c) ==
  IF c.last_handler # NULL
  THEN repeated(c, try_decode_PKCS12(NULL_NAME, NULL_BLOB, 0, c.last_handler_ctx))
  ELSE [c EXCEPT !.result = NULL_INFO]

\* ------------------------------------------------------------ record reader

\* PEM_do_header on an encrypted block once the pass phrase callback has
\* answered g: the decryption with the padding check
decrypted(c, g, blob, rec) ==
  [c EXCEPT
     !.gw = Append(@, blob.ui),
     !.asked = @ \o [i \in 1..g.prompts |-> rec],
     !.ok = g.len > 0 /\ blob.ui = "good",
     !.errq = @ \cup g.errs \cup (IF g.len <= 0 THEN {R_PEM_BAD_PASSWORD}
                                  ELSE IF blob.ui # "good" THEN {R_PEM_BAD_DECRYPT}
                                  ELSE {}),
     !.pushed = @ \cup g.errs \cup (IF g.len <= 0 THEN {R_PEM_BAD_PASSWORD}
                                    ELSE IF blob.ui # "good" THEN {R_PEM_BAD_DECRYPT}
                                    ELSE {})]

\* PEM_do_header: one call of the pass phrase callback
PEM_do_header(c, blob, rec) == decrypted(c, file_get_pem_pass(blob.ui), blob, rec)

\* file_read_pem on the record rec: c.ok tells whether a blob was read; the
\* blob is c.blob, its name c.pem_name
read_pem(c, blob, rec) ==
  IF ~blob.framing THEN [Raise(c, {R_PEM_BAD_END}) EXCEPT !.ok = FALSE]
  ELSE IF blob.enc = "none"
       THEN [c EXCEPT !.ok = TRUE, !.pem_name = blob.name, !.blob = blob]
  ELSE IF blob.enc = "badinfo"
       THEN [Raise(c, {R_PEM_CIPHER}) EXCEPT !.ok = FALSE]
  ELSE PEM_do_header([c EXCEPT !.pem_name = blob.name, !.blob = blob], blob, rec)

file_read_pem(c) ==
  IF BIO_eof(c) THEN [Raise(c, {R_PEM_NO_START}) EXCEPT !.ok = FALSE]
  ELSE read_pem([c EXCEPT !.pos = @ + 1, !.reads = @ + 1],
                c.stream[c.pos + 1], c.pos + 1)

\* file_read_asn1
file_read_asn1(c) ==
  IF BIO_eof(c) THEN [Raise(c, {R_ASN1_READ}) EXCEPT !.ok = FALSE]
  ELSE IF ~c.stream[c.pos + 1].framing
       THEN [Raise(c, {R_ASN1_READ}) EXCEPT !.ok = FALSE, !.pos = @ + 1, !.reads = @ + 1]
  ELSE [c EXCEPT !.ok = TRUE, !.pos = @ + 1, !.reads = @ + 1,
                 !.pem_name = NULL_NAME, !.blob = c.stream[c.pos + 1]]

\* --------------------------------------------------------------- file_load

\* a read failed: count an error unless the loader is at its end; e is the
\* context file_eof left
\* an error counted for every failed read, the end of the stream included
count_error_always(e) == [e EXCEPT !.errcnt = @ + 1]

count_error(e) == IF ~e.ret THEN [e EXCEPT !.errcnt = @ + 1] ELSE e

\* a failed read that counts no error
read_failed_uncounted(c) == file_eof(c)

read_failed(c) == count_error(file_eof(c))

\* a loop that runs its body once
loop_again_never(c) == FALSE

\* the condition of the do ... while loop
loop_again(c) ==
  /\ c.matchcount = 0
  /\ ~file_eof(c).ret
  /\ ~file_error(c).ret

\* the body of the do ... while loop, once a read has answered rd
loop_body(rd) ==
  IF ~rd.ok THEN read_failed(rd)
  ELSE file_load_try_decode([rd EXCEPT !.matchcount = -1], rd.handlers,
                            rd.pem_name, rd.blob, rd.pos)

\* the do ... while loop of file_load; nx is the context the body left
RECURSIVE read_loop(_)
loop_end(nx) ==
  IF nx.crashed \/ nx.hung THEN nx
  ELSE IF loop_again(nx) THEN read_loop(nx)
  ELSE nx

read_loop(c) ==
  loop_end(loop_body(IF c.is_pem THEN file_read_pem(c) ELSE file_read_asn1(c)))

\* file_load after the loop: we bail out on ambiguity
bail_out(l) ==
  IF ~l.crashed /\ ~l.hung /\ l.matchcount > 1 THEN [l EXCEPT !.result = NULL_INFO] ELSE l

\* file_load without the test of file_error before the loop
load_fresh_unchecked(e) == bail_out(read_loop(e))

\* file_load after file_error has answered e
load_fresh(e) ==
  IF e.ret THEN [e EXCEPT !.result = NULL_INFO] ELSE bail_out(read_loop(e))

\* file_load going on to read whatever file_load_try_repeat returned
load_after_repeat_reading(r) == load_fresh(file_error(r))

\* file_load after file_load_try_repeat has left r
load_after_repeat(r) ==
  IF r.result # NULL_INFO THEN r ELSE load_fresh(file_error(r))

\* file_load: the object returned is c.result
file_load(c) == load_after_repeat(file_load_try_repeat([c EXCEPT !.matchcount = -1]))

\* file_close that forgets the handler context
file_close_leaky(c) ==
  [c EXCEPT !.log = @ \o <<"BIO_free_all", "OPENSSL_free">>,
            !.last_handler_ctx = NULL_CTX, !.last_handler = NULL]

\* file_close
file_close(c) ==
  [(IF c.last_handler # NULL
    THEN [destroy_ctx_PKCS12(c, c.last_handler_ctx) EXCEPT
            !.log = Append(@, "destroy_ctx"),
            !.last_handler_ctx = NULL_CTX,
            !.last_handler = NULL]
    ELSE c)
   EXCEPT !.log = @ \o <<"BIO_free_all", "OPENSSL_free">>]

\* --------------------------------------------------------------- file_open

\* A locator is the sequence of its characters.
NULL_PATH == <<"NULL">>            \* path == NULL

FILE_COLON      == <<"f", "i", "l", "e", ":">>
SLASH_SLASH     == <<"/", "/">>
SLASH3          == <<"/", "/", "/">>
LOCALHOST       == <<"l", "o", "c", "a", "l", "h", "o", "s", "t">>
SLASH_LOCALHOST == SLASH_SLASH \o LOCALHOST \o <<"/">>

tolower(ch) ==
  CASE ch = "F" -> "f" [] ch = "I" -> "i" [] ch = "L" -> "l" [] ch = "E" -> "e"
    [] OTHER -> ch

\* strncasecmp(s, lit, Len(lit)) == 0
strncasecmp(s, lit) ==
  /\ Len(s) >= Len(lit)
  /\ \A i \in DOMAIN lit : tolower(s[i]) = tolower(lit[i])

\* strncmp(&s[k], lit, Len(lit)) == 0
strncmp(s, k, lit) ==
  /\ Len(s) - k >= Len(lit)
  /\ SubSeq(s, k + 1, k + Len(lit)) = lit

\* &s[k]
From(s, k) == SubSeq(s, k + 1, Len(s))

\* the test that the path after an explicit scheme is absolute
absolute(path) ==
  IF path = <<>> \/ path[1] # "/"
  THEN [path |-> NULL_PATH, err |-> R_PATH_ABSOLUTE]
  ELSE [path |-> path, err |-> NULL]

\* the scheme test with every "file:" locator taken from &uri[5] on
file_open_path_no_authority(uri) ==
  IF strncasecmp(uri, FILE_COLON)
  THEN IF strncmp(uri, 5, SLASH_LOCALHOST) THEN absolute(From(uri, 16))
       ELSE IF strncmp(uri, 5, SLASH3) THEN absolute(From(uri, 7))
       ELSE absolute(From(uri, 5))
  ELSE [path |-> uri, err |-> NULL]

\* file_open up to the allocation of the context: the path to open, or the
\* reason the locator is turned down for (a build without _WIN32)
file_open_path(uri) ==
  IF strncasecmp(uri, FILE_COLON)
  THEN IF strncmp(uri, 5, SLASH_LOCALHOST) THEN absolute(From(uri, 16))
       ELSE IF strncmp(uri, 5, SLASH3) THEN absolute(From(uri, 7))
       ELSE IF ~strncmp(uri, 5, SLASH_SLASH) THEN absolute(From(uri, 5))
       ELSE [path |-> NULL_PATH, err |-> R_URI_AUTHORITY]
  ELSE [path |-> uri, err |-> NULL]

\* the steps of file_open once the path is resolved, when BIO_new_file
\* opens the file and when it does not
OpenedLog == <<"OPENSSL_zalloc", "BIO_new", "BIO_new_file", "BIO_push", "BIO_buffer_peek">>
FailedLog == <<"OPENSSL_zalloc", "BIO_new", "BIO_new_file", "BIO_free", "OPENSSL_free">>

\* the locators tried: a scheme or none, an authority or none, a path
Schemes == { <<>>, FILE_COLON, <<"F", "I", "L", "E", ":">>, <<"f", "i", "l", "e">> }
Authorities ==
  { <<>>, SLASH_SLASH, SLASH_SLASH \o LOCALHOST, SLASH_SLASH \o <<"h", "o", "s", "t">>,
    SLASH_SLASH \o LOCALHOST \o <<"x">>, SLASH_SLASH \o <<"L", "O", "C", "A", "L", "H", "O", "S", "T">> }
Paths == SeqsUpTo({"/", "p"}, MaxPath)
Locators == { sc \o au \o pa : sc \in Schemes, au \in Authorities, pa \in Paths }

\* ------------------------------------------------------------------- state

VARIABLES
  stream,            \* the records of the file
  pos,               \* records read off ctx->file
  is_pem,            \* ctx->is_pem
  errcnt,            \* ctx->errcnt
  last_handler,      \* ctx->last_handler, by name
  last_handler_ctx,  \* ctx->last_handler_ctx
  errq,              \* the error queue of the thread
  made, freed, ctxMade, destroyed, asked,   \* the ledger
  uri,               \* the locator given to file_open
  path,              \* the path file_open resolved, NULL_PATH when none
  oplog,             \* the steps of file_open from the allocation on
  registry,          \* the table of handlers the dispatch walks
  status,            \* "unopened", "rejected" (file_open returned NULL before
                     \* it allocated), "failed" (the file could not be opened),
                     \* "open", "closed", "crashed" (a call faulted), or "hung"
                     \* (a call cannot return)
  lastOp,            \* the last public call
  ret,               \* what the last file_eof / file_error call returned
  answers,           \* what file_eof and file_error returned since the last file_load
  result,            \* what the last file_load call returned
  returns,           \* what every file_load call returned, in order
  call,              \* the locals of the last file_load call
  log                \* the steps of file_close, in order

vars == << stream, pos, is_pem, errcnt, last_handler, last_handler_ctx, errq,
           made, freed, ctxMade, destroyed, asked, uri, path, oplog, registry,
           status, lastOp, ret, answers, result, returns, call, log >>

opened == << uri, path, oplog, registry >>

loader == << pos, is_pem, errcnt, last_handler, last_handler_ctx >>
ledger == << made, freed, ctxMade, destroyed, asked >>

NoCall ==
  [matchcount |-> -1, reads |-> 0, pushed |-> {}, gw |-> <<>>, matching |-> <<>>,
   result |-> NULL_INFO, handler_ctx |-> NULL_CTX,
   tmp_result |-> NULL_INFO, tmp_handler_ctx |-> NULL_CTX, drec |-> 0,
   ok |-> TRUE, probes |-> 0, steps |-> <<>>, passes |-> 0]

\* the context a public call starts from
Cur ==
  [stream |-> stream, pos |-> pos, is_pem |-> is_pem, errcnt |-> errcnt,
   last_handler |-> last_handler, last_handler_ctx |-> last_handler_ctx,
   errq |-> errq, made |-> made, freed |-> freed, ctxMade |-> ctxMade,
   destroyed |-> destroyed, asked |-> asked, log |-> log,
   ret |-> FALSE, crashed |-> FALSE, ok |-> TRUE,
   pem_name |-> NULL_NAME, blob |-> NULL_BLOB,
   matchcount |-> -1, reads |-> 0, pushed |-> {}, gw |-> <<>>, matching |-> <<>>,
   result |-> NULL_INFO, handler_ctx |-> NULL_CTX,
   tmp_result |-> NULL_INFO, tmp_handler_ctx |-> NULL_CTX, drec |-> 0,
   probes |-> 0, steps |-> <<>>, passes |-> 0, inner |-> NULL_BLOB,
   hung |-> FALSE, handlers |-> registry]

\* the context a public call leaves
Leaves(c) ==
  /\ pos' = c.pos
  /\ is_pem' = c.is_pem
  /\ errcnt' = c.errcnt
  /\ last_handler' = c.last_handler
  /\ last_handler_ctx' = c.last_handler_ctx
  /\ errq' = c.errq
  /\ made' = c.made
  /\ freed' = c.freed
  /\ ctxMade' = c.ctxMade
  /\ destroyed' = c.destroyed
  /\ asked' = c.asked
  /\ log' = c.log

\* file_open, after the path is resolved and the file opened: the peek finds
\* the armor marker in a PEM stream
file_open(s) ==
  \E i \in DOMAIN s : s[i].name # NULL_NAME

\* a loader that file_open has just returned
Fresh ==
  /\ pos = 0
  /\ errcnt = 0
  /\ last_handler = NULL
  /\ last_handler_ctx = NULL_CTX
  /\ made = {} /\ freed = <<>> /\ ctxMade = {} /\ destroyed = <<>> /\ asked = <<>>
  /\ ret = FALSE
  /\ answers = [at_end |-> {}, had_error |-> {}]
  /\ result = NULL_INFO
  /\ returns = <<>>
  /\ call = NoCall
  /\ log = <<>>

\* the loader file_open returns for a bare path
Init ==
  /\ stream \in Streams
  /\ is_pem = file_open(stream)
  /\ uri = <<"p">>
  /\ path = file_open_path(uri).path
  /\ oplog = OpenedLog
  /\ registry = file_handlers
  /\ errq = {}
  /\ status = "open"
  /\ lastOp = "open"
  /\ Fresh

\* what a file_load call leaves: the loader, the object returned, and the
\* locals of the call; a call that faulted returns nothing
Loaded(c) ==
  /\ Leaves(c)
  /\ status' = IF c.crashed THEN "crashed" ELSE IF c.hung THEN "hung" ELSE "open"
  /\ result' = IF c.crashed \/ c.hung THEN NULL_INFO ELSE c.result
  /\ returns' = IF c.crashed \/ c.hung THEN returns ELSE Append(returns, c.result)
  /\ call' = [matchcount |-> c.matchcount, reads |-> c.reads,
              pushed |-> c.pushed, gw |-> c.gw,
              matching |-> [i \in DOMAIN c.matching |-> c.matching[i].name],
              result |-> c.result, handler_ctx |-> c.handler_ctx,
              tmp_result |-> c.tmp_result,
              tmp_handler_ctx |-> c.tmp_handler_ctx, drec |-> c.drec,
              ok |-> c.ok, probes |-> c.probes, steps |-> c.steps,
              passes |-> c.passes]

Answered(c) == Leaves(c) /\ ret' = c.ret

Load ==
  /\ status = "open"
  /\ Len(returns) < MaxLoads
  /\ Loaded(file_load(Cur))
  /\ lastOp' = "load"
  /\ ret' = FALSE
  /\ answers' = [at_end |-> {}, had_error |-> {}]
  /\ UNCHANGED << stream, opened >>

AtEnd ==
  /\ status = "open"
  /\ Answered(file_eof(Cur))
  /\ lastOp' = "at_end"
  /\ answers' = [answers EXCEPT !.at_end = @ \cup {ret'}]
  /\ UNCHANGED << stream, opened, status, result, returns, call >>

HadError ==
  /\ status = "open"
  /\ Answered(file_error(Cur))
  /\ lastOp' = "had_error"
  /\ answers' = [answers EXCEPT !.had_error = @ \cup {ret'}]
  /\ UNCHANGED << stream, opened, status, result, returns, call >>

Close ==
  /\ status = "open"
  /\ Leaves(file_close(Cur))
  /\ status' = "closed"
  /\ lastOp' = "close"
  /\ ret' = FALSE
  /\ answers' = [at_end |-> {}, had_error |-> {}]
  /\ UNCHANGED << stream, opened, result, returns, call >>

Next == Load \/ AtEnd \/ HadError \/ Close

Spec == Init /\ [][Next]_vars

\* ------------------------------------------------- file_open on a locator

\* the files a resolved path may name
OpenStreams ==
  SeqsUpTo({ Rec(TRUE, NULL_NAME, "none", {"PKCS12"}, 1, "pass", "good"),
             Rec(TRUE, PEM_STRING_X509, "none", {"X509"}, 1, "empty", "good"),
             Rec(FALSE, PEM_STRING_X509, "none", {}, 1, "empty", "good") }, MaxRecords)

\* before file_open is called on a locator
InitOpen ==
  /\ uri \in Locators
  /\ stream = <<>>
  /\ is_pem = FALSE
  /\ path = NULL_PATH
  /\ oplog = <<>>
  /\ registry = file_handlers
  /\ errq = {}
  /\ status = "unopened"
  /\ lastOp = "none"
  /\ Fresh

\* file_open: the locator is turned down, or the file cannot be opened, or
\* the loader is returned with the stream sniffed
Open ==
  /\ status = "unopened"
  /\ lastOp' = "open"
  /\ \/ /\ file_open_path(uri).err # NULL
        /\ status' = "rejected"
        /\ errq' = errq \cup {file_open_path(uri).err}
        /\ UNCHANGED << stream, is_pem, path, oplog >>
     \/ /\ file_open_path(uri).err = NULL
        /\ path' = file_open_path(uri).path
        /\ status' = "failed"
        /\ oplog' = FailedLog
        /\ UNCHANGED << stream, is_pem, errq >>
     \/ /\ file_open_path(uri).err = NULL
        /\ path' = file_open_path(uri).path
        /\ status' = "open"
        /\ oplog' = OpenedLog
        /\ stream' \in OpenStreams
        /\ is_pem' = file_open(stream')
        /\ UNCHANGED errq
  /\ UNCHANGED << pos, errcnt, last_handler, last_handler_ctx, ledger, registry,
                  ret, answers, result, returns, call, log, uri >>

NextOpen == Open \/ Load \/ AtEnd \/ HadError \/ Close

SpecOpen == InitOpen /\ [][NextOpen]_vars


\* ------------------------------------- the dispatch over a table of handlers

\* the streams of one record: the raw blobs, and the armored certificates
OneRecord ==
  { <<r>> : r \in RawRecords \cup { b \in PemRecords : b.name = PEM_STRING_X509 } }

\* file_handlers in every order
Orders ==
  { [i \in DOMAIN file_handlers |-> file_handlers[f[i]]] :
      f \in Permutations(DOMAIN file_handlers) }

\* a loader over one record, with the table in some order
InitOrder ==
  /\ stream \in OneRecord
  /\ is_pem = file_open(stream)
  /\ uri = <<"p">>
  /\ path = file_open_path(uri).path
  /\ oplog = OpenedLog
  /\ registry \in Orders
  /\ errq = {}
  /\ status = "open"
  /\ lastOp = "open"
  /\ Fresh

SpecOrder == InitOrder /\ [][Next]_vars

\* ---- blobs in wrappers

PEM_STRING_PKCS8 == <<"ENCRYPTED", "PRIVATE", "KEY">>

\* a blob an unwrapping handler finds inside itself
Echo(name) == [Rec(TRUE, name, "none", {}, 1, "empty", "good") EXCEPT !.echo = TRUE]

\* inner in k wrappers
RECURSIVE Wrap(_, _, _)
Wrap(name, inner, k) ==
  IF k = 0 THEN inner ELSE Wrapped(name, Wrap(name, inner, k - 1))

WrappedRaw ==
  { Wrap(NULL_NAME, core, k) :
      core \in { Rec(TRUE, NULL_NAME, "none", {"X509"}, 1, "empty", "good"),
                 Rec(TRUE, NULL_NAME, "none", {"PKCS12"}, 1, "pass", "good"),
                 Rec(TRUE, NULL_NAME, "none", {}, 1, "empty", "good"),
                 Echo(NULL_NAME) },
      k \in 0..MaxDepth }

WrappedPem ==
  { Wrap(PEM_STRING_PKCS8, core, k) :
      core \in { Rec(TRUE, PEM_RSA_PRIVATE, "none", Codecs, 1, "empty", "good"),
                 Echo(PEM_STRING_PKCS8) },
      k \in 0..MaxDepth }

\* a loader over wrapped blobs, with the unwrapping handler in the table
InitEmbedded ==
  /\ stream \in SeqsUpTo(WrappedRaw, MaxRecords) \cup SeqsUpTo(WrappedPem, MaxRecords)
  /\ is_pem = file_open(stream)
  /\ uri = <<"p">>
  /\ path = file_open_path(uri).path
  /\ oplog = OpenedLog
  /\ registry \in { <<Wrapper_handler>> \o file_handlers,
                     file_handlers \o <<Wrapper_handler>> }
  /\ errq = {}
  /\ status = "open"
  /\ lastOp = "open"
  /\ Fresh

SpecEmbedded == InitEmbedded /\ [][Next]_vars

\* ------------------------------------------------------------ observations

Range(q) == { q[i] : i \in DOMAIN q }
Count(q, x) == Cardinality({ i \in DOMAIN q : q[i] = x })

\* a record the reader hands on to the dispatch
Readable(blob) ==
  /\ blob.framing
  /\ blob.enc = "none" \/ (blob.enc = "enc" /\ blob.ui = "good")

\* the handlers whose try_decode accepts a blob
Matchers(blob) ==
  { file_handlers[i].name : i \in
      { j \in DOMAIN file_handlers :
          try_decode(file_handlers[j], blob.name, blob, 1, NULL_CTX).info # NULL_INFO } }

\* the kind of object a non-repeatable handler stands for
KindOf(h) ==
  CASE h = "PrivateKey"      -> "PKEY"
    [] h = "PUBKEY"          -> "PKEY"
    [] h = "X509Certificate" -> "CERT"
    [] h = "X509CRL"         -> "CRL"
    [] h = "params"          -> "PARAMS"

NonRepeatable == { file_handlers[i].name : i \in { j \in DOMAIN file_handlers : ~file_handlers[j].repeatable } }

\* what at_end() and had_error() would answer in the current state
at_end    == file_eof(Cur).ret
had_error == file_error(Cur).ret

\* the decoded objects nobody has released and the caller was not given
Undelivered == { o \in made : o \notin Range(returns) /\ o \notin Range(freed) }

\* the handler contexts not destroyed
LiveCtx == { r \in ctxMade : \A i \in DOMAIN destroyed : destroyed[i].ctx # r }

\* nothing is left behind and nothing was released twice
NothingLive ==
  /\ Undelivered = {}
  /\ LiveCtx = {}
  /\ \A o \in made : Count(freed, o) + Count(returns, o) = 1
  /\ \A r \in ctxMade : Cardinality({ i \in DOMAIN destroyed : destroyed[i].ctx = r }) = 1

\* the last file_load call dispatched a blob that two or more handlers accepted
Ambiguous == lastOp = "load" /\ Len(call.matching) >= 2

\* ------------------------------------------------------------------ claims

\* C1: for a stream, armored or raw, of exactly one blob that exactly one
\* handler accepts as a non-repeatable object, the first load returns an
\* object of that handler's kind, and a second load returns no object with
\* at_end() true and had_error() false.
C1_SingleObject ==
  \A h \in NonRepeatable :
    (Len(stream) = 1 /\ Readable(stream[1]) /\ Matchers(stream[1]) = {h})
    => /\ status # "crashed"
       /\ Len(returns) >= 1 => returns[1] = Info(KindOf(h), h, 1, 1)
       /\ (Len(returns) >= 2 /\ status = "open")
            => returns[2] = NULL_INFO /\ at_end /\ ~had_error

C1_Witness ==
  /\ Len(stream) = 1 /\ is_pem /\ stream[1].enc = "enc"
  /\ Matchers(stream[1]) = {"PrivateKey"}
  /\ Len(returns) = 2 /\ returns[1].type = "PKEY" /\ returns[2] = NULL_INFO
  /\ lastOp = "at_end" /\ ret

\* C2 (as claimed): whenever two or more handlers succeed on the same blob,
\* that load returns, returns no object, and has read no record past the
\* ambiguous one.
C2_AmbiguousReturnsAtOnce ==
  Ambiguous => /\ status = "open"
               /\ result = NULL_INFO
               /\ pos = call.drec

\* C3 (as claimed): on an ambiguous dispatch every object decoded and every
\* handler context created from that blob is released exactly once before
\* the dispatch returns.
C3_AmbiguousReleasesAll ==
  Ambiguous =>
    /\ status = "open"
    /\ \A o \in made : o.rec = call.drec => Count(freed, o) = 1
    /\ \A r \in ctxMade : r = call.drec
          => Cardinality({ i \in DOMAIN destroyed : destroyed[i].ctx = r }) = 1

\* C4: for a raw stream of one bundle with one key and N certificates that
\* only the PKCS12 handler accepts, the first N+1 loads return the key and
\* then the certificates, each once and in order, and every later load
\* returns no object, with at_end() true and had_error() false.
C4_Bundle ==
  (Len(stream) = 1 /\ ~is_pem /\ Readable(stream[1]) /\ Matchers(stream[1]) = {"PKCS12"})
  => /\ status # "crashed"
     /\ \A k \in DOMAIN returns :
          returns[k] = IF k = 1 THEN Info("PKEY", "PKCS12", 1, 1)
                       ELSE IF k <= stream[1].ncerts + 1 THEN Info("CERT", "PKCS12", 1, k)
                       ELSE NULL_INFO
     /\ (Len(returns) >= stream[1].ncerts + 2 /\ status = "open")
          => at_end /\ ~had_error

C4_Witness ==
  /\ Len(stream) = 1 /\ ~is_pem /\ Matchers(stream[1]) = {"PKCS12"}
  /\ stream[1].ncerts = 2 /\ stream[1].mac = "pass"
  /\ Len(returns) = 4 /\ returns[3].type = "CERT" /\ returns[4] = NULL_INFO
  /\ lastOp = "at_end" /\ ret

\* C5: a close, at any point, destroys the live iteration state exactly once,
\* through the sticky handler's destroy operation and before the stream is
\* released; after it no iteration state and no undelivered object is live.
C5_CloseReleases ==
  [][ (status = "open" /\ status' = "closed")
      => /\ last_handler # NULL
            => /\ log' = <<"destroy_ctx", "BIO_free_all", "OPENSSL_free">>
               /\ destroyed' = Append(destroyed, [ctx |-> last_handler_ctx.rec,
                                                  via |-> last_handler])
               /\ last_handler_ctx.rec \in LiveCtx
         /\ last_handler = NULL
            => /\ log' = <<"BIO_free_all", "OPENSSL_free">>
               /\ destroyed' = destroyed
         /\ NothingLive'
         /\ last_handler' = NULL /\ last_handler_ctx' = NULL_CTX ]_vars

C5_Witness ==
  /\ status = "closed"
  /\ Len(returns) = 1 /\ returns[1] = Info("PKEY", "PKCS12", 1, 1)
  /\ log = <<"destroy_ctx", "BIO_free_all", "OPENSSL_free">>
  /\ freed = << Info("CERT", "PKCS12", 1, 2), Info("CERT", "PKCS12", 1, 3) >>
  /\ destroyed = << [ctx |-> 1, via |-> "PKCS12"] >>

\* C6: at_end() answers true exactly when no object of the sticky handler is
\* pending and the stream is exhausted; it answers false while bundle objects
\* are pending although the stream is fully read.
C6_AtEnd ==
  lastOp = "at_end" => (ret <=> (Undelivered = {} /\ pos = Len(stream)))

C6_Witness ==
  /\ lastOp = "at_end" /\ ~ret
  /\ pos = Len(stream)
  /\ result.by = "PKCS12"
  /\ Undelivered # {}

\* C7: the error counter never decreases, and once it is nonzero had_error()
\* answers true on every later call.
C7_ErrorSticky ==
  [][ /\ errcnt' >= errcnt
      /\ (errcnt > 0 /\ lastOp' = "had_error") => ret' ]_vars

C7_Witness ==
  /\ errcnt > 0 /\ Len(returns) >= 3
  /\ lastOp = "had_error" /\ ret
  /\ answers.at_end # {}

\* C8: at_end() and had_error() change nothing of the loader, its stream, its
\* sticky handler state, the error queue or the ledger, and answer the same
\* each time between two loads.
C8_PureQueries ==
  [][ lastOp' \in {"at_end", "had_error"}
      => /\ UNCHANGED << stream, loader, errq, ledger, status, log >>
         /\ Cardinality(answers'.at_end) <= 1
         /\ Cardinality(answers'.had_error) <= 1 ]_vars

C8_Witness ==
  /\ lastOp = "at_end" /\ answers.had_error = {FALSE} /\ answers.at_end = {FALSE}
  /\ last_handler # NULL /\ Len(last_handler_ctx.q) = 2

\* the last load read an encrypted PEM block and its decryption failed
DecryptFailed ==
  /\ lastOp = "load" /\ is_pem
  /\ call.gw # <<>> /\ call.gw[Len(call.gw)] # "good"

\* C9 (as claimed): a load whose decryption of an encrypted block fails
\* returns no object and leaves had_error() true, wherever the block sits.
C9_DecryptFailureIsError ==
  DecryptFailed => result = NULL_INFO /\ had_error

ExplicitScheme(u) ==
  Len(u) >= 5 /\ [i \in 1..5 |-> tolower(u[i])] = FILE_COLON

\* the index of the first "/" of s, Len(s) + 1 when there is none
FirstSlash(s) ==
  IF \E i \in DOMAIN s : s[i] = "/"
  THEN CHOOSE i \in DOMAIN s : s[i] = "/" /\ \A j \in 1..(i - 1) : s[j] # "/"
  ELSE Len(s) + 1

HasAuthority(u) == Len(u) >= 7 /\ u[6] = "/" /\ u[7] = "/"

\* what stands between "//" and the next "/"
AuthorityOf(u) == SubSeq(From(u, 7), 1, FirstSlash(From(u, 7)) - 1)

\* what is left after the scheme and the authority
PathOf(u) ==
  IF HasAuthority(u) THEN From(From(u, 7), FirstSlash(From(u, 7)) - 1) ELSE From(u, 5)

\* C11: file_open on a locator with the scheme "file:" returns no loader,
\* having allocated nothing and tried to open no file, when the authority is
\* neither empty nor localhost or the path left does not start with "/";
\* otherwise the path it opens is the path left after scheme and authority
\* (file:///p, file://localhost/p and file:/p all give /p); a locator
\* without the scheme is the path, unchanged.
C11_Locator ==
  status # "unopened" =>
    IF ExplicitScheme(uri)
    THEN IF \/ HasAuthority(uri) /\ AuthorityOf(uri) \notin {<<>>, LOCALHOST}
            \/ PathOf(uri) = <<>>
            \/ PathOf(uri)[1] # "/"
         THEN status = "rejected" /\ path = NULL_PATH /\ oplog = <<>>
         ELSE /\ status # "rejected" /\ path = PathOf(uri)
              /\ oplog[3] = "BIO_new_file"
              /\ uri \in { FILE_COLON \o SLASH3 \o <<"p">>,
                            FILE_COLON \o SLASH_LOCALHOST \o <<"p">>,
                            FILE_COLON \o <<"/", "p">> } => path = <<"/", "p">>
    ELSE status # "rejected" /\ path = uri /\ oplog[3] = "BIO_new_file"

C11_Witness ==
  /\ uri = FILE_COLON \o SLASH_SLASH \o <<"h", "o", "s", "t", "/", "p">>
  /\ status = "rejected"
  /\ errq = {R_URI_AUTHORITY}
  /\ oplog = <<>> /\ path = NULL_PATH

\* a step that is a file_load call
LoadStep == lastOp' = "load" /\ (Len(returns') = Len(returns) + 1 \/ status' # status)

\* the handler context in the loader's slot
Slot == IF last_handler_ctx = NULL_CTX THEN {} ELSE {last_handler_ctx.rec}

\* C13: at most one handler context is live at any time; between public
\* calls the live one is the one in the loader's slot, and after close none
\* is; when a call leaves a new context in the slot, the context that was
\* there before is destroyed.
C13_OneLiveState ==
  [][ /\ Cardinality(LiveCtx') <= 1
      /\ status' = "open" => LiveCtx' = Slot'
      /\ status' = "closed" => LiveCtx' = {}
      /\ (Slot' # {} /\ Slot' # Slot)
           => \A r \in Slot : \E i \in DOMAIN destroyed' : destroyed'[i].ctx = r ]_vars

C13_Witness ==
  /\ status = "open"
  /\ destroyed = << [ctx |-> 1, via |-> "PKCS12"] >>
  /\ last_handler = "PKCS12" /\ last_handler_ctx.rec = 2
  /\ LiveCtx = {2}

\* C14: a load made while the sticky handler has objects pending returns the
\* first of them, having read nothing from the stream and called no handler
\* but the sticky one; the position in the stream and the error counter are
\* as before.
C14_DrainFirst ==
  [][ (LoadStep /\ last_handler # NULL /\ Len(last_handler_ctx.q) > 0)
      => /\ status' = "open"
         /\ result' = Head(last_handler_ctx.q)
         /\ last_handler_ctx'.q = Tail(last_handler_ctx.q)
         /\ pos' = pos /\ errcnt' = errcnt
         /\ call'.reads = 0 /\ call'.passes = 0 /\ call'.probes = 1 ]_vars

C14_Witness ==
  /\ lastOp = "load" /\ Len(stream) = 2 /\ pos = 1
  /\ result = Info("CERT", "PKCS12", 1, 3)
  /\ call.reads = 0
  /\ Len(returns) = 3

\* a record the reader hands on and no handler accepts
Unsupported(blob) == Readable(blob) /\ Matchers(blob) = {}

\* the records at the head of the stream that are unsupported
Skipped ==
  Cardinality({ k \in DOMAIN stream : \A j \in 1..k : Unsupported(stream[j]) })

\* C15: in an armored stream the first load skips the unsupported records at
\* the head of the stream within the one call and returns the object of the
\* record after them when one handler accepts it, counting no error; when
\* every record is unsupported it returns no object, and at_end() is true
\* and had_error() false from then on.
C15_SkipUnsupported ==
  (is_pem /\ Len(returns) >= 1)
  => /\ (Skipped < Len(stream) /\ Readable(stream[Skipped + 1])
          /\ Cardinality(Matchers(stream[Skipped + 1])) = 1)
        => /\ returns[1].rec = Skipped + 1
           /\ returns[1].by \in Matchers(stream[Skipped + 1])
           /\ Len(returns) = 1 => (pos = Skipped + 1 /\ errcnt = 0)
     /\ (Skipped = Len(stream) /\ status = "open")
        => /\ \A i \in DOMAIN returns : returns[i] = NULL_INFO
           /\ pos = Len(stream) /\ errcnt = 0
           /\ at_end /\ ~had_error

C15_Witness ==
  /\ is_pem /\ Len(stream) = 2 /\ Unsupported(stream[1])
  /\ stream[1].name = PEM_PKCS8INF
  /\ Len(returns) = 1 /\ returns[1] = Info("CRL", "X509CRL", 2, 1)
  /\ call.reads = 2 /\ errcnt = 0

\* C16: a load whose read fails before the stream is exhausted counts one
\* error and returns no object, reading no further; every later load returns
\* no object, reads nothing and calls no handler.
C16_Malformed ==
  [][ LoadStep
      => /\ (errcnt = 0 /\ ~call'.ok /\ pos' < Len(stream))
            => /\ errcnt' = 1
               /\ result' = NULL_INFO
               /\ ~Readable(stream[pos'])
         /\ (errcnt > 0 /\ last_handler = NULL)
            => /\ result' = NULL_INFO
               /\ pos' = pos /\ errcnt' = errcnt
               /\ call'.reads = 0 /\ call'.probes = 0 /\ call'.passes = 0
               /\ ledger' = ledger ]_vars

C16_Witness ==
  /\ lastOp = "load" /\ errcnt = 1
  /\ Len(returns) = 2 /\ returns[1] = NULL_INFO /\ returns[2] = NULL_INFO
  /\ Len(stream) = 2 /\ pos = 1
  /\ ~stream[1].framing
  /\ Cardinality(Matchers(stream[2])) = 1
  /\ call.reads = 0 /\ call.probes = 0

\* C19 (as claimed): whatever a load returns with, the error queue its
\* caller sees holds no "is not a" entry of a handler.
C19_NoSoftDiagnostics ==
  (lastOp = "load" /\ status = "open") => R_IS_NOT_A \notin errq

\* C20: on a container the PKCS12 handler checks the MAC under the empty pass
\* phrase, then the null one, then prompts once and checks under the pass
\* phrase given, each only if the one before failed, and parses only after
\* a check succeeded; when the prompt is cancelled or fails, or the MAC
\* fails under the pass phrase given, the handler does not match, leaves no
\* context and no object, and the record is not prompted for again.
C20_MacOrder ==
  (lastOp = "load" /\ call.steps # <<>>)
  => /\ call.steps[1] = "verify_mac empty"
     /\ \A i \in DOMAIN call.steps :
          /\ call.steps[i] = "verify_mac empty" => i = 1
          /\ call.steps[i] = "verify_mac null"
               => i = 2 /\ stream[call.drec].mac # "empty"
          /\ call.steps[i] = "file_get_pass"
               => i = 3 /\ stream[call.drec].mac \notin {"empty", "null"}
          /\ call.steps[i] = "verify_mac pass"
               => i = 4 /\ stream[call.drec].ui \in {"good", "wrong"}
          /\ call.steps[i] = "PKCS12_parse"
               => /\ i = Len(call.steps) /\ i > 1
                  /\ call.steps[i - 1] = "verify_mac empty" => stream[call.drec].mac = "empty"
                  /\ call.steps[i - 1] = "verify_mac null" => stream[call.drec].mac = "null"
                  /\ call.steps[i - 1] = "verify_mac pass"
                       => stream[call.drec].mac = "pass" /\ stream[call.drec].ui = "good"
                  /\ call.steps[i - 1] # "file_get_pass"
     /\ Count(asked, call.drec) <= 1
     /\ ("file_get_pass" \in Range(call.steps)) <=> (Count(asked, call.drec) = 1)
     /\ "PKCS12_parse" \notin Range(call.steps)
          => /\ "PKCS12" \notin Range(call.matching)
             /\ call.drec \notin ctxMade
             /\ \A o \in made : ~(o.by = "PKCS12" /\ o.rec = call.drec)
             /\ stream[call.drec].ui \in {"cancelled", "failed", "wrong"}

C20_Witness ==
  /\ lastOp = "load" /\ result = NULL_INFO
  /\ call.steps = <<"verify_mac empty", "verify_mac null", "file_get_pass", "verify_mac pass">>
  /\ stream[call.drec].ui = "wrong"
  /\ R_PKCS12_MAC \in errq
  /\ ctxMade = {}

\* C12: no load returns an embedded object, whether the object comes out of
\* a dispatch, after any number of wrappers, or off the sticky handler's
\* stack.
C12_NoEmbedded ==
  /\ result.type # "EMBEDDED"
  /\ \A i \in DOMAIN returns : returns[i].type # "EMBEDDED"
  /\ \A o \in made : o.type = "EMBEDDED" => o \in Range(freed)

C12_Witness ==
  /\ Len(stream) = 1 /\ Depth(stream[1]) = 2
  /\ returns = << Info("PKEY", "PKCS12", 1, 1), Info("CERT", "PKCS12", 1, 2) >>
  /\ freed = << Info("EMBEDDED", "Wrapper", 1, 2), Info("EMBEDDED", "Wrapper", 1, 1) >>
  /\ lastOp = "load" /\ call.passes = 0

\* C17 (as claimed): the dispatch of a blob always comes to an end, each
\* pass taking one wrapper off; a blob whose wrapper holds the blob itself
\* ends the load with no object and an error counted.
C17_UnwrapTerminates ==
  /\ status # "hung"
  /\ (lastOp = "load" /\ call.passes > 0)
       => /\ call.passes <= Depth(stream[call.drec]) + 1
          /\ (\E k \in 0..MaxDepth :
                 \E n \in {NULL_NAME, PEM_STRING_PKCS8} :
                    stream[call.drec] = Wrap(n, Echo(n), k))
               => result = NULL_INFO /\ errcnt > 0

\* what a file_load call left: the kind of result, the object, the sticky
\* slot, and what was released
OutcomeOf(c) ==
  [fault    |-> c.crashed,
   kind     |-> IF c.matchcount > 1 THEN "ambiguous"
                ELSE IF c.matchcount = 0 THEN "unsupported" ELSE "object",
   result   |-> IF c.crashed THEN NULL_INFO ELSE c.result,
   handler  |-> c.last_handler,
   ctx      |-> c.last_handler_ctx,
   freed    |-> Range(c.freed),
   destroyed |-> Range(c.destroyed)]

\* C18 (as claimed): a load leaves the same result, the same sticky slot and
\* the same set of released objects and contexts as it would with the
\* handlers in the order of file_handlers.
C18_OrderIndependent ==
  [][ LoadStep
      => [fault |-> status' = "crashed",
          kind |-> IF call'.matchcount > 1 THEN "ambiguous"
                   ELSE IF call'.matchcount = 0 THEN "unsupported" ELSE "object",
          result |-> result',
          handler |-> last_handler',
          ctx |-> last_handler_ctx',
          freed |-> Range(freed'),
          destroyed |-> Range(destroyed')]
         = OutcomeOf(file_load([Cur EXCEPT !.handlers = file_handlers])) ]_vars

\* C21 (as claimed): every load comes to an end and returns; it returns an
\* object, or it has taken at least one record off the stream, or it leaves
\* the loader with at_end() or had_error() true, so that a caller who goes on
\* loading comes to a loader at its end or in error.
C21_LoadsSettle ==
  [][ LoadStep
      => /\ status' = "open"
         /\ \/ result' # NULL_INFO
            \/ pos' > pos
            \/ at_end'
            \/ had_error' ]_vars

\* the load read, or tried to read, a record off the stream
ReadAttempted(c) ==
  \/ c.reads >= 1
  \/ R_PEM_NO_START \in c.pushed
  \/ R_ASN1_READ \in c.pushed

\* C22: a load that finds a sticky handler with objects pending returns the
\* next of them and leaves the handler and its state in the loader, nothing
\* destroyed; a load that finds the sticky handler exhausted calls its
\* destroy operation on the state exactly once, first of all, leaves the
\* state in the slot no more, and goes on to the read path in the same call:
\* it reads unless an error was counted before.
C22_StickyTeardown ==
  [][ (LoadStep /\ last_handler # NULL)
      => /\ ~eof_PKCS12(last_handler_ctx)
            => /\ result' = Head(last_handler_ctx.q)
               /\ last_handler' = last_handler
               /\ last_handler_ctx' = [last_handler_ctx EXCEPT !.q = Tail(@)]
               /\ destroyed' = destroyed
               /\ ~ReadAttempted(call')
         /\ eof_PKCS12(last_handler_ctx)
            => /\ Len(destroyed') > Len(destroyed)
               /\ SubSeq(destroyed', 1, Len(destroyed) + 1)
                    = Append(destroyed, [ctx |-> last_handler_ctx.rec,
                                         via |-> last_handler])
               /\ Cardinality({ i \in DOMAIN destroyed' :
                                  destroyed'[i].ctx = last_handler_ctx.rec }) = 1
               /\ last_handler_ctx'.rec # last_handler_ctx.rec
               /\ (last_handler' = NULL) <=> (last_handler_ctx' = NULL_CTX)
               /\ ReadAttempted(call') <=> (errcnt = 0) ]_vars

C22_Witness ==
  /\ Len(stream) = 2 /\ ~is_pem
  /\ lastOp = "load" /\ Len(returns) = 3
  /\ returns[1] = Info("PKEY", "PKCS12", 1, 1)
  /\ returns[2] = Info("CERT", "PKCS12", 1, 2)
  /\ returns[3] = Info("CERT", "X509Certificate", 2, 1)
  /\ destroyed = << [ctx |-> 1, via |-> "PKCS12"] >>
  /\ last_handler = NULL /\ call.reads = 1

\* C23 (as claimed): the dispatch calls no destroy operation that the handler
\* does not define, every handler state is destroyed through the handler
\* that created it, and a blob that the repeatable handler accepts first and
\* a handler without a destroy operation accepts after it ends the dispatch
\* as ambiguous.
C23_DestroyThroughOwner ==
  /\ status # "crashed"
  /\ \A i \in DOMAIN destroyed : destroyed[i].via = "PKCS12"
  /\ (lastOp = "load" /\ Len(call.matching) >= 2 /\ call.matching[1] = "PKCS12")
       => /\ call.matchcount = Len(call.matching)
          /\ R_AMBIGUOUS \in call.pushed
          /\ result = NULL_INFO

\* C24 (as claimed): a load on a blob that two or more handlers accept,
\* whichever of them is repeatable and whichever comes first, returns and
\* leaves the loader with no sticky handler and no handler state, so that
\* the next load makes no call to a sticky handler.
C24_NoStickyAfterAmbiguous ==
  [][ (LoadStep /\ Len(call'.matching) >= 2)
      => /\ status' = "open"
         /\ last_handler' = NULL
         /\ last_handler_ctx' = NULL_CTX
         /\ file_load_try_repeat(Cur').probes = 0 ]_vars

\* C25: whenever a load returns no object and its dispatch did not count two
\* or more matches, at_end() or had_error() answers true right after it.
C25_EmptyExplained ==
  (lastOp = "load" /\ status = "open" /\ result = NULL_INFO /\ call.matchcount <= 1)
  => at_end \/ had_error

C25_Witness ==
  /\ Len(stream) = 2 /\ is_pem
  /\ lastOp = "load" /\ status = "open" /\ result = NULL_INFO
  /\ Len(returns) = 1
  /\ call.reads = 1 /\ call.matchcount = -1
  /\ pos = 1 /\ ~at_end /\ had_error

\* C26 (as claimed): a load on a blob that two or more handlers accept
\* returns no object, leaves the error counter and the answer of had_error()
\* as they were and the stream just behind that blob; and the load after it
\* reads the next record of the stream, if there is one, and dispatches it.
C26_AmbiguityLocal ==
  [][ /\ (LoadStep /\ Len(call'.matching) >= 2)
         => /\ status' = "open"
            /\ result' = NULL_INFO
            /\ errcnt' = errcnt
            /\ had_error' <=> had_error
            /\ pos' = call'.drec
      /\ (LoadStep /\ Ambiguous /\ pos < Len(stream))
         => /\ call'.reads >= 1
            /\ Readable(stream[pos + 1]) => call'.passes >= 1 ]_vars

====
